---- MODULE Spec2Model ----
(***************************************************************************)
(* Model of the chat client of baza-ai-app: the send orchestrator of the   *)
(* App component (handleSendMessage, retry, regenerate), the session store *)
(* it drives, and the localStorage persistence of useChatHistory.          *)
(*                                                                         *)
(* One action is one event handler run to its first suspension point, or   *)
(* one continuation of a suspended handler (a remote call resolving,       *)
(* rejecting, or delivering a chunk).  React state setters called in a     *)
(* handler are batched and committed, and the save effect has run, before  *)
(* the next event is dispatched, so every action ends with the save.       *)
(* Timestamps (Date.now()) are not modelled: no handler reads them.        *)
(***************************************************************************)
EXTENDS Integers, Sequences, FiniteSets, TLC

\* ---------------------------------------------------------------- bounds
MaxSessions == 2     \* sessions ever created by newChat
MaxWork == 4         \* sessions created plus remote calls started, together
MaxCalls == MaxWork - 1
MaxWorkLive == 3     \* the same bound in the specification with fairness
MaxWorkWide == 5     \* the same bound in the two-chat specification
MaxCallsWide == MaxWorkWide - 1
MaxStoreSessions == 3   \* sessions ever created by createSession
MaxWorkStore == 5    \* sessions created plus messages added by the hook's callers

\* ---------------------------------------------------------------- values
NoId == 0                       \* null / undefined id
Null == "null"                  \* file: null
Texts == {"", " ", "hi"}        \* composer texts: empty, whitespace, a word
CameraPrompts == {""}           \* the prompt sent with a capture
Chunks == {"c1", "c2"}          \* texts the stream delivers
Finals == {"c2"}                \* final text of a resolved send
Cites == {"undefined", "g1"}    \* groundingChunks of a resolved send
Questions == {"hi"}             \* the suggested questions
Absent == "absent"              \* an object key that is not there
Titles == {"t1"}                \* titles typed in the sidebar
Roles == {"user", "assistant"}  \* role of a message given to addMessage
Contents == {"hi"}              \* content of a message given to addMessage

VARIABLES
    sessions,        \* useChatHistory: ChatSession[]
    currentChatId,   \* useChatHistory: id of the current session, or NoId
    storage,         \* localStorage[STORAGE_KEY]
    boot,            \* "mounted": first render done, effects pending;
                     \* "loaded": mount effects ran, setSessions(parsed) queued;
                     \* "ready": committed
    queued,          \* the session list setSessions(parsed) queued at mount
    input,           \* App: composer text
    file,            \* App: composer file (the paperclip is not modelled: a
                     \* file reaches a message through the camera)
    isSending,       \* App: the in-flight flag
    calls,           \* the handleSendMessage invocations suspended at an
                     \* await, by call number
    nCalls,          \* number of calls started so far
    nextSession,     \* number of session ids drawn so far
    last,            \* observation only: the handler run last, and the call
                     \* it started, continued or ended (0: none)
    unloaded,        \* observation only, between a reload and the commit of
                     \* its load: the list the page held in memory when it
                     \* was reloaded, and whether its save effect had run
    budget,          \* the bound on sessions created plus calls started of
                     \* the behaviour; no action changes it
    nMessages        \* number of message ids addMessage has drawn so far

vars == <<sessions, currentChatId, storage, boot, queued, input, file,
          isSending, calls, nCalls, nextSession, last, unloaded, budget, nMessages>>

\* -------------------------------------------------------------- strings
\* String.prototype.trim on the composer texts: whitespace only trims to "".
Trim(t) == IF t \in {"", " "} THEN "" ELSE t

\* ------------------------------------------------------------- messages
\* userMessage of handleSendMessage: status 'complete', the given text/file.
UserMessage(id, text, f) ==
    [id |-> id, role |-> "user", text |-> text, file |-> f,
     status |-> "complete", cites |-> Absent]

\* modelMessage of handleSendMessage: the placeholder, 'pending', text ''.
ModelMessage(id) ==
    [id |-> id, role |-> "model", text |-> "", file |-> Absent,
     status |-> "pending", cites |-> Absent]

\* ---------------------------------------------------------------- store
SessionIds(ss) == {ss[i].id : i \in 1..Len(ss)}
HasSession(ss, id) == id \in SessionIds(ss)
GetSession(ss, id) == ss[CHOOSE i \in 1..Len(ss) : ss[i].id = id]
MessagesOf(ss, id) == IF HasSession(ss, id) THEN GetSession(ss, id).messages ELSE <<>>

\* createSession: a fresh session appended to the list.
NewSession(id) == [id |-> id, title |-> "New Chat", messages |-> <<>>, history |-> <<>>]
CreateSession(ss, id) == Append(ss, NewSession(id))

\* A deleteSession that also drops the sessions created before that one.
DeleteSessionAndOlder(ss, id) == SelectSeq(ss, LAMBDA s : s.id > id)

\* deleteSession: the list without the session of that id.
DeleteSession(ss, id) == SelectSeq(ss, LAMBDA s : s.id # id)

\* updateChat(id, {messages: prev => ms}): the session of that id with the
\* message list its updater returns (callers compute ms from MessagesOf, the
\* latest list); every other session, and a list without the id, as is.
UpdateMessages(ss, id, ms) ==
    [i \in 1..Len(ss) |->
        IF ss[i].id = id THEN [ss[i] EXCEPT !.messages = ms] ELSE ss[i]]

\* updateChat(id, {history}): the session's history context replaced.
UpdateHistory(ss, id, h) ==
    [i \in 1..Len(ss) |->
        IF ss[i].id = id THEN [ss[i] EXCEPT !.history = h] ELSE ss[i]]

\* updateChat(id, {title}): the session's title replaced.
UpdateTitleOf(ss, id, t) ==
    [i \in 1..Len(ss) |->
        IF ss[i].id = id THEN [ss[i] EXCEPT !.title = t] ELSE ss[i]]

\* ---------------------------------------------------------- persistence
Missing == [kind |-> "missing", val |-> <<>>]
Corrupt == [kind |-> "corrupt", val |-> <<>>]

\* A serialisation that also drops the keys whose value is null.
StringifyMessageDroppingNull(m) ==
    [m EXCEPT !.cites = IF @ = "undefined" THEN Absent ELSE @,
              !.file = IF @ \in {"undefined", Null} THEN Absent ELSE @]

\* JSON.stringify drops the keys whose value is undefined.
StringifyMessage(m) ==
    [m EXCEPT !.cites = IF @ = "undefined" THEN Absent ELSE @,
              !.file = IF @ = "undefined" THEN Absent ELSE @]
StringifySession(s) ==
    [s EXCEPT !.messages = [i \in 1..Len(s.messages) |-> StringifyMessage(s.messages[i])]]
Stringify(ss) ==
    [kind |-> "json", val |-> [i \in 1..Len(ss) |-> StringifySession(ss[i])]]

\* The save effect: localStorage.setItem(STORAGE_KEY, JSON.stringify(sessions)).
SaveEffect(ss) == Stringify(ss)

\* A load effect that only tests the entry for presence, its parse unguarded.
LoadCallsWhenPresent(st) == st.kind # "missing"

\* The load effect: what setSessions is called with, if it is called.
LoadCalls(st) == st.kind = "json"
LoadValue(st) == st.val

\* --------------------------------------------------------- orchestrator
NoCalls == [k \in {} |-> 0]
NoCall == [chat |-> NoId, userId |-> NoId, modelId |-> NoId, text |-> "", file |-> Null,
           retry |-> FALSE, idle |-> FALSE, seed |-> <<>>, before |-> 0,
           final |-> "", cites |-> Absent, phase |-> "none"]
Event(op, arg, call) == [op |-> op, arg |-> arg, call |-> call]
WithCall(k, call) == [j \in DOMAIN calls \cup {k} |-> IF j = k THEN call ELSE calls[j]]
WithoutCall(k) == [j \in DOMAIN calls \ {k} |-> calls[j]]

\* const currentSession = sessions.find(s => s.id === currentChatId)
CurrentMessages == MessagesOf(sessions, currentChatId)

\* The early return with the trim left out: whitespace counts as text.
RejectsUntrimmed(text, f) ==
    \/ text = "" /\ f \in {Null, Absent}
    \/ currentChatId = NoId
    \/ ~HasSession(sessions, currentChatId)

\* handleSendMessage's early return:
\*   (!messageText.trim() && !messageFile) || !currentChatId || !currentSession
Rejects(text, f) ==
    \/ Trim(text) = "" /\ f \in {Null, Absent}
    \/ currentChatId = NoId
    \/ ~HasSession(sessions, currentChatId)

\* The append without the retry filter: the retried message stays.
AppendPairKeepingRetried(ss, chat, userId, modelId, text, f, retryId) ==
    UpdateMessages(ss, chat,
        MessagesOf(ss, chat) \o <<UserMessage(userId, text, f), ModelMessage(modelId)>>)

\* An append that rewrites the retried message where it is and appends only
\* the placeholder.
AppendPairInPlace(ss, chat, userId, modelId, text, f, retryId) ==
    LET prev == MessagesOf(ss, chat)
    IN  IF retryId # NoId
        THEN UpdateMessages(ss, chat,
                 [i \in 1..Len(prev) |->
                     IF prev[i].id = retryId THEN UserMessage(userId, text, f) ELSE prev[i]]
                 \o <<ModelMessage(modelId)>>)
        ELSE UpdateMessages(ss, chat,
                 prev \o <<UserMessage(userId, text, f), ModelMessage(modelId)>>)

\* The two updateChat calls of handleSendMessage: the retried message
\* filtered out (retry only), then [...prev, userMessage, modelMessage].
AppendPair(ss, chat, userId, modelId, text, f, retryId) ==
    LET prev == MessagesOf(ss, chat)
        kept == IF retryId # NoId
                THEN SelectSeq(prev, LAMBDA m : m.id # retryId)
                ELSE prev
    IN  UpdateMessages(ss, chat,
            kept \o <<UserMessage(userId, text, f), ModelMessage(modelId)>>)

\* A chunk handler that appends the chunk to the placeholder's text.
ApplyChunkAppending(ss, chat, modelId, text) ==
    LET prev == MessagesOf(ss, chat)
    IN  UpdateMessages(ss, chat,
            [i \in 1..Len(prev) |->
                IF prev[i].id = modelId
                THEN [prev[i] EXCEPT !.text = @ \o text, !.status = "pending"]
                ELSE prev[i]])

\* handleStreamChunk: the placeholder's text replaced, status kept 'pending'.
ApplyChunk(ss, chat, modelId, text) ==
    LET prev == MessagesOf(ss, chat)
    IN  UpdateMessages(ss, chat,
            [i \in 1..Len(prev) |->
                IF prev[i].id = modelId
                THEN [prev[i] EXCEPT !.text = text, !.status = "pending"]
                ELSE prev[i]])

\* A success update addressed to the chat that is current when the call
\* resolves, not to the chat of the send.
ApplyFinalToCurrent(ss, chat, modelId, text, cites, history) ==
    LET prev == MessagesOf(ss, currentChatId)
    IN  UpdateHistory(
            UpdateMessages(ss, currentChatId,
                [i \in 1..Len(prev) |->
                    IF prev[i].id = modelId
                    THEN [prev[i] EXCEPT !.text = text, !.status = "complete",
                                         !.cites = cites]
                    ELSE prev[i]]),
            currentChatId, history)

\* A success update that completes every 'pending' message of the session.
ApplyFinalEveryPending(ss, chat, modelId, text, cites, history) ==
    LET prev == MessagesOf(ss, chat)
    IN  UpdateHistory(
            UpdateMessages(ss, chat,
                [i \in 1..Len(prev) |->
                    IF prev[i].status = "pending"
                    THEN [prev[i] EXCEPT !.text = text, !.status = "complete",
                                         !.cites = cites]
                    ELSE prev[i]]),
            chat, history)

\* The update after sendMessage resolved: history, final text, 'complete',
\* groundingChunks.
ApplyFinal(ss, chat, modelId, text, cites, history) ==
    LET prev == MessagesOf(ss, chat)
    IN  UpdateHistory(
            UpdateMessages(ss, chat,
                [i \in 1..Len(prev) |->
                    IF prev[i].id = modelId
                    THEN [prev[i] EXCEPT !.text = text, !.status = "complete",
                                         !.cites = cites]
                    ELSE prev[i]]),
            chat, history)

\* A catch block that marks the user message and leaves the placeholder.
ApplyErrorKeepingPlaceholder(ss, chat, userId, modelId) ==
    LET prev == MessagesOf(ss, chat)
    IN  UpdateMessages(ss, chat,
            [i \in 1..Len(prev) |->
                IF prev[i].id = userId
                THEN [prev[i] EXCEPT !.status = "error"]
                ELSE prev[i]])

\* The catch block: the user message marked 'error', the placeholder dropped.
ApplyError(ss, chat, userId, modelId) ==
    LET prev == MessagesOf(ss, chat)
        marked == [i \in 1..Len(prev) |->
                      IF prev[i].id = userId
                      THEN [prev[i] EXCEPT !.status = "error"]
                      ELSE prev[i]]
    IN  UpdateMessages(ss, chat, SelectSeq(marked, LAMBDA m : m.id # modelId))

\* uuidv4(): ids never drawn before; call k draws 2k-1 (user) and 2k (model).
FreshUserId(k) == 2 * k - 1
FreshModelId(k) == 2 * k

\* The call the handler just run has started (0: it started none).
Started == IF nCalls' # nCalls THEN nCalls' ELSE 0
StartedCall == IF nCalls' # nCalls THEN calls'[nCalls'] ELSE NoCall

\* handleSendMessage(messageText, messageFile, messageIdToRetry), from its
\* entry to its first await.  ss is the session list with the updates the
\* caller queued before calling (handleRegenerate's filter) applied.
HandleSendMessage(text, f, retryId, ss) ==
    IF Rejects(text, f)
    THEN /\ sessions' = ss
         /\ UNCHANGED <<isSending, input, file, calls, nCalls>>
    ELSE LET k == nCalls + 1
             userId == IF retryId # NoId THEN retryId ELSE FreshUserId(k)
             modelId == FreshModelId(k)
         IN  /\ nCalls + nextSession < budget
             /\ nCalls' = k
             /\ isSending' = TRUE
             /\ sessions' = AppendPair(ss, currentChatId, userId, modelId, text, f, retryId)
             /\ input' = ""
             /\ file' = Null
             /\ calls' = WithCall(k,
                    [chat |-> currentChatId, userId |-> userId, modelId |-> modelId,
                     text |-> text, file |-> f, retry |-> retryId # NoId,
                     idle |-> ~isSending /\ DOMAIN calls = {},
                     seed |-> GetSession(sessions, currentChatId).history,
                     before |-> Len(MessagesOf(ss, currentChatId)),
                     final |-> "", cites |-> Absent,
                     phase |-> "open"])

\* ----------------------------------------------------------------- init
NotUnloaded == [saved |-> FALSE, list |-> <<>>]

\* The state after the first render, in a behaviour bounded by b.
InitWith(b) ==
    /\ sessions = <<>>
    /\ currentChatId = NoId
    /\ storage \in {Missing, Corrupt}
    /\ boot = "mounted"
    /\ queued = <<>>
    /\ input = ""
    /\ file = Null
    /\ isSending = FALSE
    /\ calls = NoCalls
    /\ nCalls = 0
    /\ nextSession = 0
    /\ last = Event("init", 0, NoCall)
    /\ unloaded = NotUnloaded
    /\ budget = b
    /\ nMessages = 0

Init == InitWith(MaxWork)

Ready == boot = "ready"

\* The save effect after the commit of an event's state updates.
Saved ==
    /\ storage' = SaveEffect(sessions')
    /\ UNCHANGED <<boot, queued, unloaded, budget>>

\* What every handler of App leaves alone, and the save effect.
Committed == Saved /\ UNCHANGED nMessages

\* -------------------------------------------------------------- startup
\* The two mount effects, in order: the load effect reads the entry and queues
\* setSessions(parsed); the save effect writes the sessions of the first
\* render, which are [].
MountEffects ==
    /\ boot = "mounted"
    /\ queued' = IF LoadCalls(storage) THEN LoadValue(storage) ELSE <<>>
    /\ boot' = IF LoadCalls(storage) THEN "loaded" ELSE "ready"
    /\ storage' = SaveEffect(sessions)
    /\ unloaded' = IF LoadCalls(storage) THEN unloaded ELSE NotUnloaded
    /\ last' = Event("mount", IF LoadCalls(storage) THEN 0 ELSE 1, NoCall)
    /\ UNCHANGED <<sessions, currentChatId, input, file, isSending, calls, nCalls,
                   nextSession, budget, nMessages>>

\* The render the queued setSessions(parsed) causes, and its save effect.
CommitLoad ==
    /\ boot = "loaded"
    /\ sessions' = queued
    /\ queued' = <<>>
    /\ boot' = "ready"
    /\ storage' = SaveEffect(sessions')
    /\ unloaded' = NotUnloaded
    /\ last' = Event("load", IF unloaded.saved THEN 1 ELSE 0, NoCall)
    /\ UNCHANGED <<currentChatId, input, file, isSending, calls, nCalls, nextSession,
                   budget, nMessages>>

\* The page is reloaded: component state starts over, localStorage stays, and
\* the promises of the old page are gone with it.
Reload ==
    /\ sessions' = <<>>
    /\ currentChatId' = NoId
    /\ boot' = "mounted"
    /\ queued' = <<>>
    /\ input' = ""
    /\ file' = Null
    /\ isSending' = FALSE
    /\ calls' = NoCalls
    /\ unloaded' = IF boot = "mounted"
                   THEN NotUnloaded
                   ELSE [saved |-> TRUE, list |-> sessions]
    /\ last' = Event("other", 0, NoCall)
    /\ UNCHANGED <<storage, nCalls, nextSession, budget, nMessages>>

\* ------------------------------------------------------------- composer
\* onChange of the textarea, which is disabled while isSending.
TypeInput(t) ==
    /\ Ready /\ ~isSending
    /\ input' = t
    /\ last' = Event("other", 0, NoCall)
    /\ UNCHANGED <<sessions, currentChatId, file, isSending, calls, nCalls, nextSession>>
    /\ Committed

\* A click on the send button; the button is disabled while
\* isSending || (!input.trim() && !file), and then no handler runs.
SendButton ==
    /\ Ready
    /\ IF isSending \/ (Trim(input) = "" /\ file = Null)
       THEN UNCHANGED <<sessions, isSending, input, file, calls, nCalls>>
       ELSE HandleSendMessage(input, file, NoId, sessions)
    /\ last' = Event("send", Started, StartedCall)
    /\ UNCHANGED <<currentChatId, nextSession>>
    /\ Committed

\* Enter in the textarea; a disabled textarea gets no key events.
EnterKey ==
    /\ Ready
    /\ IF isSending
       THEN UNCHANGED <<sessions, isSending, input, file, calls, nCalls>>
       ELSE HandleSendMessage(input, file, NoId, sessions)
    /\ last' = Event("send", Started, StartedCall)
    /\ UNCHANGED <<currentChatId, nextSession>>
    /\ Committed

\* handleSuggestedQuestionClick(question)
SuggestedQuestionClick(q) ==
    /\ Ready
    /\ HandleSendMessage(q, Null, NoId, sessions)
    /\ last' = Event("send", Started, StartedCall)
    /\ UNCHANGED <<currentChatId, nextSession>>
    /\ Committed

\* handleSendFromCamera(dataUrl, prompt): the capture is the file.
SendFromCamera(prompt) ==
    /\ Ready
    /\ HandleSendMessage(prompt, "f1", NoId, sessions)
    /\ last' = Event("send", Started, StartedCall)
    /\ UNCHANGED <<currentChatId, nextSession>>
    /\ Committed

\* handleRetry(messageId), offered on the user messages marked 'error'.
Retry(i) ==
    /\ Ready
    /\ i \in 1..Len(CurrentMessages)
    /\ CurrentMessages[i].role = "user" /\ CurrentMessages[i].status = "error"
    /\ HandleSendMessage(CurrentMessages[i].text, CurrentMessages[i].file,
                         CurrentMessages[i].id, sessions)
    /\ last' = Event("retry", Started, StartedCall)
    /\ UNCHANGED <<currentChatId, nextSession>>
    /\ Committed

\* [...messages].reverse().find(m => m.role === 'user')
LastUserIndex(ms) ==
    LET us == {i \in 1..Len(ms) : ms[i].role = "user"}
    IN  IF us = {} THEN 0 ELSE CHOOSE i \in us : \A j \in us : j <= i

\* A filter that drops every model message, not only the last one.
DropEveryModel(ss, chat, lastId) ==
    UpdateMessages(ss, chat,
        SelectSeq(MessagesOf(ss, chat), LAMBDA m : m.role # "model"))

\* handleRegenerate's updateChat: prev.filter(m => m.role !== 'model' ||
\*   m.id !== currentSession.messages[currentSession.messages.length - 1].id)
DropLastModel(ss, chat, lastId) ==
    UpdateMessages(ss, chat,
        SelectSeq(MessagesOf(ss, chat), LAMBDA m : m.role # "model" \/ m.id # lastId))

\* The early return without the in-flight flag.
RegenerateReturnsWhenNoSession == ~HasSession(sessions, currentChatId)

\* handleRegenerate's early return: !currentSession || isSending
RegenerateReturns == ~HasSession(sessions, currentChatId) \/ isSending

\* handleRegenerate()
Regenerate ==
    /\ Ready
    /\ IF RegenerateReturns \/ LastUserIndex(CurrentMessages) = 0
       THEN UNCHANGED <<sessions, isSending, input, file, calls, nCalls>>
       ELSE LET ms == CurrentMessages
                u == ms[LastUserIndex(ms)]
            IN  HandleSendMessage(u.text, u.file, NoId,
                    DropLastModel(sessions, currentChatId, ms[Len(ms)].id))
    /\ last' = Event("regenerate", Started, StartedCall)
    /\ UNCHANGED <<currentChatId, nextSession>>
    /\ Committed

\* -------------------------------------------------------------- sidebar
\* handleNewChat: setInput(''), setFile(null), newChat()
NewChat ==
    /\ Ready
    /\ nextSession < MaxSessions
    /\ nCalls + nextSession < budget
    /\ nextSession' = nextSession + 1
    /\ sessions' = CreateSession(sessions, nextSession')
    /\ currentChatId' = nextSession'
    /\ input' = ""
    /\ file' = Null
    /\ last' = Event("other", 0, NoCall)
    /\ UNCHANGED <<isSending, calls, nCalls>>
    /\ Committed

\* handleSelectChat(id): setInput(''), setFile(null), selectChat(id)
SelectChat(id) ==
    /\ Ready
    /\ id \in SessionIds(sessions)
    /\ currentChatId' = id
    /\ input' = ""
    /\ file' = Null
    /\ last' = Event("other", 0, NoCall)
    /\ UNCHANGED <<sessions, isSending, calls, nCalls, nextSession>>
    /\ Committed

\* onDeleteChat={deleteChat}
DeleteChat(id) ==
    /\ Ready
    /\ id \in SessionIds(sessions)
    /\ sessions' = DeleteSession(sessions, id)
    /\ currentChatId' = IF currentChatId = id THEN NoId ELSE currentChatId
    /\ last' = Event("other", 0, NoCall)
    /\ UNCHANGED <<input, file, isSending, calls, nCalls, nextSession>>
    /\ Committed

\* handleUpdateTitle(id, title), from the rename of a listed session.
UpdateTitle(id, t) ==
    /\ Ready
    /\ id \in SessionIds(sessions)
    /\ sessions' = UpdateTitleOf(sessions, id, t)
    /\ last' = Event("title", id, NoCall)
    /\ UNCHANGED <<currentChatId, input, file, isSending, calls, nCalls, nextSession>>
    /\ Committed

\* --------------------------------------------------- remote call outcomes
Live(k) == k \in DOMAIN calls

\* chat.history once sendMessage has resolved: the seed and this exchange.
HandleHistory(k) == Append(calls[k].seed, k)

\* await startChat(...) resolves; sendMessage(...) is called and awaited.
OpenResolve(k) ==
    /\ Live(k) /\ calls[k].phase = "open"
    /\ calls' = [calls EXCEPT ![k].phase = "send"]
    /\ last' = Event("other", 0, NoCall)
    /\ UNCHANGED <<sessions, currentChatId, input, file, isSending, nCalls, nextSession>>
    /\ Committed

\* sendMessage calls onChunk(text).
StreamChunk(k, text) ==
    /\ Live(k) /\ calls[k].phase = "send"
    /\ sessions' = ApplyChunk(sessions, calls[k].chat, calls[k].modelId, text)
    /\ last' = Event("chunk", k, calls[k])
    /\ UNCHANGED <<currentChatId, input, file, isSending, calls, nCalls, nextSession>>
    /\ Committed

\* await sendMessage(...) resolves with {text, groundingChunks}; finally.
SendResolve(k, text, cites) ==
    /\ Live(k) /\ calls[k].phase = "send"
    /\ sessions' = ApplyFinal(sessions, calls[k].chat, calls[k].modelId, text, cites,
                              HandleHistory(k))
    /\ isSending' = FALSE
    /\ calls' = WithoutCall(k)
    /\ last' = Event("resolve", k,
                     [calls[k] EXCEPT !.phase = "done", !.final = text, !.cites = cites])
    /\ UNCHANGED <<currentChatId, input, file, nCalls, nextSession>>
    /\ Committed

\* startChat or sendMessage rejects: catch, then finally.
CallFails(k) ==
    /\ Live(k)
    /\ sessions' = ApplyError(sessions, calls[k].chat, calls[k].userId, calls[k].modelId)
    /\ isSending' = FALSE
    /\ calls' = WithoutCall(k)
    /\ last' = Event("fail", k, [calls[k] EXCEPT !.phase = "failed"])
    /\ UNCHANGED <<currentChatId, input, file, nCalls, nextSession>>
    /\ Committed

\* ----------------------------------------------------------------- next
Next ==
    \/ MountEffects
    \/ CommitLoad
    \/ Reload
    \/ \E t \in Texts : TypeInput(t)
    \/ SendButton
    \/ EnterKey
    \/ \E t \in CameraPrompts : SendFromCamera(t)
    \/ \E q \in Questions : SuggestedQuestionClick(q)
    \/ \E i \in 1..(2 * MaxCalls) : Retry(i)
    \/ Regenerate
    \/ NewChat
    \/ \E id \in 1..MaxSessions : SelectChat(id)
    \/ \E id \in 1..MaxSessions : DeleteChat(id)
    \/ \E id \in 1..MaxSessions, t \in Titles : UpdateTitle(id, t)
    \/ \E k \in 1..MaxCalls : OpenResolve(k)
    \/ \E k \in 1..MaxCalls, c \in Chunks : StreamChunk(k, c)
    \/ \E k \in 1..MaxCalls, t \in Finals, g \in Cites : SendResolve(k, t, g)
    \/ \E k \in 1..MaxCalls : CallFails(k)

Spec == Init /\ [][Next]_vars

\* ------------------------------------------------------------- fairness
\* The remote service answers: a call that is outstanding is eventually
\* opened, and once opened eventually resolves or rejects.  Nothing is assumed
\* of the user, of the number of chunks, or of a call whose page was reloaded.
CallEnds(k) ==
    \/ OpenResolve(k)
    \/ \E t \in Finals, g \in Cites : SendResolve(k, t, g)
    \/ CallFails(k)

InitLive == InitWith(MaxWorkLive)

SpecLive == InitLive /\ [][Next]_vars /\ \A k \in 1..MaxCalls : WF_vars(CallEnds(k))

\* ------------------------------------------------- two chats, three calls
\* One page life of the sends that do not go through the composer, of
\* regenerate and of the chat list, without streamed chunks, with room for two
\* sessions and three calls: every behaviour of SpecWide is a behaviour of
\* the program.
InitWide == InitWith(MaxWorkWide)

NextWide ==
    \/ MountEffects
    \/ \E t \in CameraPrompts : SendFromCamera(t)
    \/ \E q \in Questions : SuggestedQuestionClick(q)
    \/ Regenerate
    \/ NewChat
    \/ \E id \in 1..MaxSessions : SelectChat(id)
    \/ \E k \in 1..MaxCallsWide : OpenResolve(k)
    \/ \E k \in 1..MaxCallsWide, t \in Finals, g \in Cites : SendResolve(k, t, g)
    \/ \E k \in 1..MaxCallsWide : CallFails(k)

SpecWide == InitWide /\ [][NextWide]_vars

\* ------------------------------------------- the operations of the hook
\* useChatHistory as the file has it, driven through the operations it
\* returns, each called from an event of its own: the state updates of the
\* call are committed, and the save effect has run, before the next call, so
\* the currentSessionId a call closes over is the committed one.  The ids
\* (Date.now() and Math.random()) are taken to be fresh.
InitStore == InitWith(MaxWorkStore)

\* newSession of createSession; the hook's ChatSession has no title and no
\* history.
HookSession(id) == [id |-> id, title |-> Absent, messages |-> <<>>, history |-> Absent]

\* newMessage of addMessage: {...message, id, timestamp}
HookMessage(id, role, content) ==
    [id |-> id, role |-> role, text |-> content, file |-> Absent,
     status |-> Absent, cites |-> Absent]

\* An addMessage that appends to every session.
AddMessageToAll(ss, sessionId, m) ==
    [i \in 1..Len(ss) |-> [ss[i] EXCEPT !.messages = Append(@, m)]]

\* addMessage's updater: prev.map(session => session.id === sessionId
\*   ? {...session, messages: [...session.messages, newMessage]} : session)
AddMessage(ss, sessionId, m) ==
    [i \in 1..Len(ss) |->
        IF ss[i].id = sessionId
        THEN [ss[i] EXCEPT !.messages = Append(@, m)]
        ELSE ss[i]]

\* A deleteSession that leaves the current id as it is.
CurrentAfterDeleteKept(cur, id) == cur

\* deleteSession: if (currentSessionId === sessionId) setCurrentSessionId(null)
CurrentAfterDelete(cur, id) == IF cur = id THEN NoId ELSE cur

\* createSession()
CreateSessionCall ==
    /\ Ready
    /\ nextSession < MaxStoreSessions
    /\ nMessages + nextSession < budget
    /\ nextSession' = nextSession + 1
    /\ sessions' = Append(sessions, HookSession(nextSession'))
    /\ currentChatId' = nextSession'
    /\ last' = Event("create", nextSession', NoCall)
    /\ UNCHANGED <<input, file, isSending, calls, nCalls, nMessages>>
    /\ Saved

\* addMessage(sessionId, {role, content}), with any id ever handed out.
AddMessageCall(id, role, content) ==
    /\ Ready
    /\ nMessages + nextSession < budget
    /\ nMessages' = nMessages + 1
    /\ sessions' = AddMessage(sessions, id, HookMessage(nMessages', role, content))
    /\ last' = Event("add", id, NoCall)
    /\ UNCHANGED <<currentChatId, input, file, isSending, calls, nCalls, nextSession>>
    /\ Saved

\* deleteSession(sessionId), with any id ever handed out.
DeleteSessionCall(id) ==
    /\ Ready
    /\ sessions' = DeleteSession(sessions, id)
    /\ currentChatId' = CurrentAfterDelete(currentChatId, id)
    /\ last' = Event("delete", id, NoCall)
    /\ UNCHANGED <<input, file, isSending, calls, nCalls, nextSession, nMessages>>
    /\ Saved

\* clearAllSessions()
ClearAllSessionsCall ==
    /\ Ready
    /\ sessions' = <<>>
    /\ currentChatId' = NoId
    /\ last' = Event("clear", 0, NoCall)
    /\ UNCHANGED <<input, file, isSending, calls, nCalls, nextSession, nMessages>>
    /\ Saved

\* setCurrentSessionId(id), with the id of a listed session.
SetCurrentSessionIdCall(id) ==
    /\ Ready
    /\ id \in SessionIds(sessions)
    /\ currentChatId' = id
    /\ last' = Event("select", id, NoCall)
    /\ UNCHANGED <<sessions, input, file, isSending, calls, nCalls, nextSession, nMessages>>
    /\ Saved

NextStore ==
    \/ MountEffects
    \/ CommitLoad
    \/ Reload
    \/ CreateSessionCall
    \/ \E id \in 1..MaxStoreSessions, r \in Roles, c \in Contents : AddMessageCall(id, r, c)
    \/ \E id \in 1..MaxStoreSessions : DeleteSessionCall(id)
    \/ ClearAllSessionsCall
    \/ \E id \in 1..MaxStoreSessions : SetCurrentSessionIdCall(id)

SpecStore == InitStore /\ [][NextStore]_vars

\* =============================================================== claims
Ids(ms) == {ms[j].id : j \in 1..Len(ms)}
WithId(ms, id) == {j \in 1..Len(ms) : ms[j].id = id}
WithStatus(ms, st) == {j \in 1..Len(ms) : ms[j].status = st}
WithRole(ms, r) == {j \in 1..Len(ms) : ms[j].role = r}
ModelMessages(ms) == SelectSeq(ms, LAMBDA m : m.role = "model")
LiveCalls == DOMAIN calls
LiveIn(chat) == {k \in LiveCalls : calls[k].chat = chat}

\* C1: in every reachable state every session holds at most one message whose
\* status is 'pending'.
C1_AtMostOnePending ==
    \A i \in 1..Len(sessions) :
        Cardinality(WithStatus(sessions[i].messages, "pending")) <= 1

\* C2: a send requested through any entry point (send button, Enter,
\* suggested question, camera) while the in-flight flag is true changes no
\* session and starts no remote call.
C2_SendInFlightIsNoOp ==
    [][(isSending /\ last'.op = "send")
        => (sessions' = sessions /\ nCalls' = nCalls)]_vars

\* C3: when the remote call of a send fails, then once the failure is handled
\* the send's user message has status 'error', its placeholder is gone, none
\* of its messages is 'pending', and the session holds one message more than
\* before the send.  Read for the sends that add a user message (a retry
\* replaces one) and for the sessions that still exist when the call fails.
C3_FailedSendKeepsUserMessage ==
    (/\ last.op = "fail"
     /\ ~last.call.retry
     /\ HasSession(sessions, last.call.chat))
    => LET c == last.call
           ms == MessagesOf(sessions, c.chat)
       IN  /\ WithId(ms, c.userId) # {}
           /\ \A j \in WithId(ms, c.userId) : ms[j].status = "error"
           /\ WithId(ms, c.modelId) = {}
           /\ \A j \in WithId(ms, c.userId) \cup WithId(ms, c.modelId) :
                 ms[j].status # "pending"
           /\ Len(ms) = c.before + 1

\* C4: when the remote call of a send resolves with (finalText, citations),
\* the send's placeholder is 'complete' with text finalText and the citations,
\* and the session's history is the history of the send's conversation handle.
\* Read for the sessions that still exist when the call resolves.
C4_ResolvedSendCompletesPlaceholder ==
    (last.op = "resolve" /\ HasSession(sessions, last.call.chat))
    => LET c == last.call
           ms == MessagesOf(sessions, c.chat)
       IN  /\ WithId(ms, c.modelId) # {}
           /\ \A j \in WithId(ms, c.modelId) :
                 /\ ms[j].status = "complete"
                 /\ ms[j].text = c.final
                 /\ ms[j].cites = c.cites
           /\ GetSession(sessions, c.chat).history = Append(c.seed, last.arg)

\* C5: a composer send whose text is empty or whitespace, with no file
\* attached, changes no session, leaves the in-flight flag and the composer as
\* they are and starts no remote call.
C5_EmptySendIsNoOp ==
    [][((SendButton \/ EnterKey) /\ Trim(input) = "" /\ file = Null)
        => UNCHANGED <<sessions, isSending, input, file, calls, nCalls>>]_vars

\* A whitespace-only send was requested in an idle chat and started nothing.
C5_Witness ==
    /\ last.op = "send" /\ last.arg = 0
    /\ input = " " /\ file = Null
    /\ ~isSending
    /\ HasSession(sessions, currentChatId)

\* C6: a retry of a failed user message, started when no send is in flight,
\* leaves exactly one message with the retried id, a user message with the
\* original text and file, keeps the number of user messages, and appends
\* exactly one new 'pending' placeholder; when the retried call then resolves,
\* the message with that id is in the session with status 'complete'.
C6_RetryStart ==
    (last'.op = "retry" /\ ~isSending /\ LiveCalls = {})
    => LET c == last'.call
           old == MessagesOf(sessions, currentChatId)
           new == MessagesOf(sessions', currentChatId)
       IN  /\ last'.arg # 0 /\ c.retry /\ c.chat = currentChatId
           /\ Cardinality(WithId(new, c.userId)) = 1
           /\ \A j \in WithId(new, c.userId), j0 \in WithId(old, c.userId) :
                 /\ new[j].role = "user"
                 /\ new[j].text = old[j0].text
                 /\ new[j].file = old[j0].file
           /\ Cardinality(WithRole(new, "user")) = Cardinality(WithRole(old, "user"))
           /\ Len(new) = Len(old) + 1
           /\ {j \in 1..Len(new) : new[j].id \notin Ids(old)} = {Len(new)}
           /\ new[Len(new)].role = "model" /\ new[Len(new)].status = "pending"
           /\ Cardinality(WithStatus(new, "pending"))
                 = Cardinality(WithStatus(old, "pending")) + 1

C6_RetryDone ==
    (/\ last.op = "resolve" /\ last.call.retry /\ last.call.idle
     /\ HasSession(sessions, last.call.chat))
    => LET ms == MessagesOf(sessions, last.call.chat)
       IN  /\ WithId(ms, last.call.userId) # {}
           /\ \A j \in WithId(ms, last.call.userId) :
                 ms[j].role = "user" /\ ms[j].status = "complete"

C6_RetryReplacesMessage == [][C6_RetryStart]_vars /\ []C6_RetryDone

\* A retry started with no send in flight has resolved.
C6_Witness ==
    /\ last.op = "resolve" /\ last.call.retry /\ last.call.idle
    /\ HasSession(sessions, last.call.chat)
    /\ WithId(MessagesOf(sessions, last.call.chat), last.call.modelId) # {}

\* C7: Regenerate on an idle session whose last message is a model reply
\* removes exactly that model message and appends exactly one new model
\* message, a 'pending' placeholder whose call carries the text and file of the
\* session's last user message.
C7_RegenerateStep ==
    (/\ last'.op = "regenerate"
     /\ ~isSending /\ LiveIn(currentChatId) = {}
     /\ HasSession(sessions, currentChatId)
     /\ CurrentMessages # <<>>
     /\ CurrentMessages[Len(CurrentMessages)].role = "model")
    => LET c == last'.call
           old == CurrentMessages
           new == MessagesOf(sessions', currentChatId)
           oldModels == ModelMessages(old)
           newModels == ModelMessages(new)
       IN  /\ last'.arg # 0 /\ c.chat = currentChatId
           /\ new # <<>>
           /\ newModels = Append(SubSeq(oldModels, 1, Len(oldModels) - 1), new[Len(new)])
           /\ new[Len(new)].role = "model"
           /\ new[Len(new)].status = "pending"
           /\ new[Len(new)].id = c.modelId
           /\ new[Len(new)].id \notin Ids(old)
           /\ \E j \in WithRole(old, "user") :
                 /\ \A j2 \in WithRole(old, "user") : j2 <= j
                 /\ c.text = old[j].text
                 /\ c.file = old[j].file

C7_RegenerateReplacesLastReply == [][C7_RegenerateStep]_vars

\* Regenerate has run on an idle session of two exchanges: the first reply is
\* kept, the second is gone, and the new placeholder is the last message.
C7_Witness ==
    /\ last.op = "regenerate" /\ last.arg # 0 /\ last.call.idle
    /\ LET ms == CurrentMessages
           n == Len(ms)
       IN  /\ n >= 5
           /\ ms[n].id = last.call.modelId /\ ms[n].status = "pending"
           /\ ms[n - 1].role = "user" /\ ms[n - 2].role = "user"
           /\ ms[n - 2].status = "complete"
           /\ ms[n - 3].role = "model" /\ ms[n - 3].status = "complete"
           /\ Len(ModelMessages(ms)) = 2

\* C8: every 'pending' model message has a live remote call paired with it.
C8_PendingHasLiveCall ==
    \A i \in 1..Len(sessions) :
        \A j \in WithStatus(sessions[i].messages, "pending") :
            \E k \in LiveIn(sessions[i].id) :
                calls[k].modelId = sessions[i].messages[j].id

\* C9: a retry requested while a send of the same session is in flight
\* changes no session and starts no remote call.
C9_RetryInFlightIsNoOp ==
    [][(last'.op = "retry" /\ LiveIn(currentChatId) # {})
        => (sessions' = sessions /\ nCalls' = nCalls)]_vars

\* C10: a regenerate requested while the in-flight flag is true removes no
\* message, appends none and starts no remote call.
C10_RegenerateInFlightIsNoOp ==
    [][(last'.op = "regenerate" /\ isSending)
        => (sessions' = sessions /\ nCalls' = nCalls)]_vars

\* Regenerate was requested, and refused, on a session that has a user
\* message to replay while a send was in flight.
C10_Witness ==
    /\ last.op = "regenerate" /\ last.arg = 0
    /\ isSending /\ LiveIn(currentChatId) # {}
    /\ HasSession(sessions, currentChatId)
    /\ LastUserIndex(CurrentMessages) # 0

\* C11: when a page whose save effect has run is reloaded, the list the load
\* effect of the fresh mount commits has the same sessions in the same order,
\* each with the same title, history and messages, field for field, as the
\* list the page held in memory before the reload.  A field is compared by
\* what reading it yields: a key that is not there reads as undefined.
ReadField(v) == IF v = Absent THEN "undefined" ELSE v
ObservedMessage(m) == [m EXCEPT !.file = ReadField(@), !.cites = ReadField(@)]
ObservedSession(s) ==
    [s EXCEPT !.messages = [i \in 1..Len(s.messages) |-> ObservedMessage(s.messages[i])]]
Observed(ss) == [i \in 1..Len(ss) |-> ObservedSession(ss[i])]

C11_ReloadRoundTrip ==
    [][(last'.op = "load" /\ unloaded.saved)
        => Observed(sessions') = Observed(unloaded.list)]_vars

\* A list with a completed exchange, citations attached, was saved, the page
\* was reloaded, and the load has been committed.
C11_Witness ==
    /\ last.op = "load" /\ last.arg = 1
    /\ \E i \in 1..Len(sessions) :
          \E j \in 1..Len(sessions[i].messages) :
              /\ sessions[i].messages[j].role = "model"
              /\ sessions[i].messages[j].status = "complete"
              /\ sessions[i].messages[j].cites = "g1"
              /\ sessions[i].history # <<>>

\* C12: when the storage entry is missing or does not parse, the mount ends
\* with the empty session list in memory and nothing queued (no error reaches
\* the component, which is ready); a session created next is in the list and in
\* storage.
C12_LoadStep ==
    (last'.op = "mount" /\ storage.kind # "json")
    => /\ boot' = "ready"
       /\ sessions' = <<>> /\ queued' = <<>>
       /\ storage' = Stringify(<<>>)

C12_CreateAfterFailedLoad ==
    (last.op = "mount" /\ last.arg = 1 /\ NewChat)
    => /\ Len(sessions') = 1
       /\ sessions'[1].messages = <<>>
       /\ currentChatId' = sessions'[1].id
       /\ storage' = Stringify(sessions')

C12_FailedLoadIsEmptyList ==
    [][C12_LoadStep]_vars /\ [][C12_CreateAfterFailedLoad]_vars

\* The mount effects have run on a missing or unparseable entry.
C12_Witness ==
    /\ last.op = "mount" /\ last.arg = 1
    /\ boot = "ready" /\ sessions = <<>>
    /\ storage = Stringify(<<>>)

\* C13: a valid send started on an idle session appends, in one step, the
\* user message ('complete', the given text and file) and then the placeholder
\* ('pending', empty text) to the end of the session; and while the call of
\* such a send is outstanding, its user message is never in the session
\* without its placeholder.
C13_AppendStep ==
    (/\ last'.op = "send" /\ last'.arg # 0
     /\ ~isSending /\ LiveIn(currentChatId) = {})
    => LET c == last'.call
           old == MessagesOf(sessions, currentChatId)
           new == MessagesOf(sessions', currentChatId)
       IN  /\ c.chat = currentChatId
           /\ new = old \o
                <<[id |-> c.userId, role |-> "user", text |-> c.text, file |-> c.file,
                   status |-> "complete", cites |-> Absent],
                  [id |-> c.modelId, role |-> "model", text |-> "", file |-> Absent,
                   status |-> "pending", cites |-> Absent]>>
           /\ c.userId \notin Ids(old) /\ c.modelId \notin Ids(old)
           /\ c.userId # c.modelId

C13_UserMessageHasPlaceholder ==
    \A k \in LiveCalls :
        (calls[k].idle /\ ~calls[k].retry)
        => LET ms == MessagesOf(sessions, calls[k].chat)
           IN  WithId(ms, calls[k].userId) # {} => WithId(ms, calls[k].modelId) # {}

C13_AtomicAppend == [][C13_AppendStep]_vars /\ []C13_UserMessageHasPlaceholder

\* C14: a chunk delivered to a streaming send replaces the text of that send's
\* placeholder by the chunk, whatever the text was, leaves its status 'pending',
\* and changes no other message and no other session; so after chunks c1..cn
\* the text is cn.
C14_ChunkStep ==
    \A k \in 1..MaxCalls, c \in Chunks :
        StreamChunk(k, c)
        => /\ Len(sessions') = Len(sessions)
           /\ \A i \in 1..Len(sessions) :
                 LET old == sessions[i].messages
                     new == sessions'[i].messages
                 IN  /\ sessions'[i] = [sessions[i] EXCEPT !.messages = new]
                     /\ Len(new) = Len(old)
                     /\ \A j \in 1..Len(old) :
                           IF sessions[i].id = calls[k].chat /\ old[j].id = calls[k].modelId
                           THEN new[j] = [old[j] EXCEPT !.text = c, !.status = "pending"]
                           ELSE new[j] = old[j]

C14_ChunkReplacesText == [][C14_ChunkStep]_vars

\* A chunk has been delivered to the placeholder of a streaming send in a
\* session that holds an earlier, completed reply.
C14_Witness ==
    /\ last.op = "chunk" /\ last.arg \in LiveCalls
    /\ LET ms == MessagesOf(sessions, last.call.chat)
       IN  /\ \E j \in WithId(ms, last.call.modelId) :
                 ms[j].text = "c2" /\ ms[j].status = "pending"
           /\ \E j \in WithStatus(ms, "complete") : ms[j].role = "model"

\* C15, as the specification states it: after a retry started on an idle
\* session the message with the retried id is at the index it had before.
C15_RetryKeepsIndex ==
    [][(last'.op = "retry" /\ last'.arg # 0 /\ ~isSending /\ LiveCalls = {})
        => WithId(MessagesOf(sessions', currentChatId), last'.call.userId)
             = WithId(MessagesOf(sessions, currentChatId), last'.call.userId)]_vars

\* C15, amended: a retry takes the failed message out of the list and appends
\* a user message with the same id, text and file, status 'complete', at the
\* end, followed by the new placeholder; the other messages keep their order.
\* The retried message keeps its index exactly when it was the last message.
C15_RetryStep ==
    (last'.op = "retry" /\ last'.arg # 0)
    => LET c == last'.call
           old == MessagesOf(sessions, currentChatId)
           new == MessagesOf(sessions', currentChatId)
       IN  /\ Cardinality(WithId(old, c.userId)) = 1
           /\ \A j0 \in WithId(old, c.userId) :
                 /\ new = SelectSeq(old, LAMBDA m : m.id # c.userId)
                            \o <<[old[j0] EXCEPT !.status = "complete"],
                                 [id |-> c.modelId, role |-> "model", text |-> "",
                                  file |-> Absent, status |-> "pending", cites |-> Absent]>>
                 /\ (WithId(new, c.userId) = {j0}) <=> (j0 = Len(old))

C15_RetryMovesToEnd == [][C15_RetryStep]_vars

\* A failed message that was followed by a completed exchange has been
\* retried on an idle session: it is now after that exchange.
C15_Witness ==
    /\ last.op = "retry" /\ last.arg # 0 /\ last.call.idle
    /\ LET ms == CurrentMessages
           n == Len(ms)
       IN  /\ n >= 4
           /\ ms[n - 1].id = last.call.userId
           /\ ms[n].id = last.call.modelId
           /\ ms[1].role = "user" /\ ms[1].id > last.call.userId
           /\ ms[2].role = "model" /\ ms[2].status = "complete"

\* C16: Regenerate on an idle session whose last message is a model reply
\* leaves the number of user messages as it was, and the number of messages
\* too: the new placeholder takes the place of the removed reply, and the
\* updates that complete it are maps, which add and remove nothing.
C16_RegenerateStep ==
    (/\ last'.op = "regenerate" /\ last'.arg # 0
     /\ ~isSending /\ LiveCalls = {}
     /\ CurrentMessages # <<>>
     /\ CurrentMessages[Len(CurrentMessages)].role = "model")
    => LET old == CurrentMessages
           new == MessagesOf(sessions', currentChatId)
       IN  /\ Cardinality(WithRole(new, "user")) = Cardinality(WithRole(old, "user"))
           /\ Len(new) = Len(old)

C16_RegenerateDoesNotDuplicate == [][C16_RegenerateStep]_vars

\* C17: given that the remote service answers, every outstanding call ends,
\* and the in-flight flag, once true, is false again later; when a call has
\* resolved or rejected, its placeholder is 'complete' or gone from its
\* session, none of its messages is 'pending', and the flag is false, so the
\* composer accepts a send.
PlaceholderPending(k) ==
    \E i \in 1..Len(sessions) :
        \E j \in WithId(sessions[i].messages, FreshModelId(k)) :
            sessions[i].messages[j].status = "pending"

C17_Settled ==
    (last.op \in {"resolve", "fail"})
    => /\ ~isSending
       /\ last.arg \notin LiveCalls
       /\ ~PlaceholderPending(last.arg)
       /\ last.op = "fail" =>
             WithId(MessagesOf(sessions, last.call.chat), last.call.modelId) = {}

C17_SendEventuallySettles ==
    /\ \A k \in 1..MaxCalls :
          (k \in LiveCalls) ~> (k \notin LiveCalls /\ ~PlaceholderPending(k))
    /\ isSending ~> ~isSending
    /\ []C17_Settled

\* A call has rejected: its placeholder is gone, nothing is outstanding and
\* the flag is false.
C17_Witness ==
    /\ last.op = "fail" /\ ~isSending /\ LiveCalls = {}
    /\ HasSession(sessions, last.call.chat)
    /\ WithId(MessagesOf(sessions, last.call.chat), last.call.userId) # {}
    /\ WithId(MessagesOf(sessions, last.call.chat), last.call.modelId) = {}

\* C18: the in-flight flag is true in every state in which a remote call
\* started by a send, retry or regenerate is outstanding.
C18_FlagCoversLiveCalls == LiveCalls # {} => isSending

\* C19: a chunk, a completion or a failure of a send changes, in the list the
\* session holds at that moment, only the send's placeholder and, on failure,
\* the send's user message: every other message of the session, whenever it was
\* added or changed, is in the list afterwards, unchanged and in the same
\* order, and no message is added; the message lists of the other sessions
\* are unchanged.
C19_Own(op, c) == IF op = "fail" THEN {c.userId, c.modelId} ELSE {c.modelId}

C19_UpdateStep ==
    (last'.op \in {"chunk", "resolve", "fail"})
    => /\ Len(sessions') = Len(sessions)
       /\ \A i \in 1..Len(sessions) :
             LET old == sessions[i].messages
                 new == sessions'[i].messages
                 own == C19_Own(last'.op, last'.call)
             IN  /\ sessions'[i].id = sessions[i].id
                 /\ IF sessions[i].id = last'.call.chat
                    THEN SelectSeq(new, LAMBDA m : m.id \notin own)
                           = SelectSeq(old, LAMBDA m : m.id \notin own)
                    ELSE new = old

C19_NoLostUpdate == [][C19_UpdateStep]_vars

\* A send has resolved in a session to which another send, started later and
\* still outstanding, had added its pair: the pair is still there.
C19_Witness ==
    /\ last.op = "resolve"
    /\ LET ms == MessagesOf(sessions, last.call.chat)
       IN  /\ \E j \in WithId(ms, last.call.modelId) : ms[j].status = "complete"
           /\ \E k \in LiveIn(last.call.chat) :
                 /\ k > last.arg
                 /\ WithId(ms, calls[k].userId) # {}
                 /\ \E j \in WithId(ms, calls[k].modelId) : ms[j].status = "pending"

\* C20: the append of a send goes to the session that is current when the
\* send is requested, and that session is the target of every later update of
\* the send (chunk, completion, failure), whichever chat is current by then:
\* a completion marks the placeholder there, and no step of a send changes the
\* messages, title or history of any other session.
C20_SendStep ==
    (last'.op \in {"send", "retry", "regenerate", "chunk", "resolve", "fail"})
    => /\ Len(sessions') = Len(sessions)
       /\ \A i \in 1..Len(sessions) :
             (last'.arg = 0 \/ sessions[i].id # last'.call.chat)
             => sessions'[i] = sessions[i]
       /\ (last'.op \in {"send", "retry", "regenerate"} /\ last'.arg # 0)
          => /\ last'.call.chat = currentChatId
             /\ WithId(MessagesOf(sessions', currentChatId), last'.call.modelId) # {}
       /\ (last'.op = "resolve" /\ last'.arg \in LiveCalls)
          => /\ last'.call.chat = calls[last'.arg].chat
             /\ \A j \in WithId(MessagesOf(sessions, last'.call.chat), last'.call.modelId) :
                   MessagesOf(sessions', last'.call.chat)[j].status = "complete"

C20_UpdatesGoToTheSendsSession == [][C20_SendStep]_vars

\* A send has resolved after the user moved to another chat: its reply is in
\* the session it was sent from.
C20_Witness ==
    /\ last.op = "resolve"
    /\ currentChatId # last.call.chat
    /\ HasSession(sessions, currentChatId)
    /\ HasSession(sessions, last.call.chat)
    /\ \E j \in WithId(MessagesOf(sessions, last.call.chat), last.call.modelId) :
          MessagesOf(sessions, last.call.chat)[j].status = "complete"
    /\ GetSession(sessions, last.call.chat).history # <<>>

\* C21: the history of a session changes only in the step in which a send of
\* that session resolves successfully (the append of a pair, a chunk, a failed
\* send, a title edit and every other step leave it as it is); and when two
\* sends of a session have both completed successfully, the history of the
\* session holds both exchanges.
C21_HistoryStep ==
    \A i \in 1..Len(sessions), i2 \in 1..Len(sessions') :
        (sessions'[i2].id = sessions[i].id /\ sessions'[i2].history # sessions[i].history)
        => /\ last'.op = "resolve"
           /\ last'.call.chat = sessions[i].id

C21_Completed(s) ==
    {s.messages[j].id \div 2 :
        j \in {j \in WithRole(s.messages, "model") : s.messages[j].status = "complete"}}

C21_HistoryReflectsBoth ==
    \A i \in 1..Len(sessions) :
        \A k1, k2 \in C21_Completed(sessions[i]) :
            k1 # k2 =>
                {k1, k2} \subseteq {sessions[i].history[h] : h \in 1..Len(sessions[i].history)}

C21_HistoryFollowsSuccessfulSends ==
    [][C21_HistoryStep]_vars /\ []C21_HistoryReflectsBoth

\* C22: no step removes a session from the stored list except the deletion of
\* that session: in particular no step of the startup (mount effects, commit of
\* the load) replaces a stored list by one that lacks some of its sessions.
C22_StorageStep ==
    LET lost == SessionIds(storage.val) \ SessionIds(storage'.val)
    IN  lost # {} => \E id \in 1..MaxSessions : DeleteChat(id) /\ lost = {id}

C22_StorageOnlyShrinksByDelete == [][C22_StorageStep]_vars

\* C23: deleteSession(id) removes the session with that id and nothing else:
\* the other sessions are in the list afterwards, unchanged and in the order
\* they had; the current id becomes null when it was id and is unchanged
\* otherwise; when no session has the id, the list and the current id are
\* unchanged.
C23_DeleteStep ==
    \A id \in 1..MaxStoreSessions :
        DeleteSessionCall(id)
        => LET at == {i \in 1..Len(sessions) : sessions[i].id = id}
           IN  /\ Len(sessions') = Len(sessions) - Cardinality(at)
               /\ \A i \in 1..Len(sessions') :
                     sessions'[i] = sessions[IF \E p \in at : p <= i THEN i + 1 ELSE i]
               /\ id \notin SessionIds(sessions')
               /\ at = {} => sessions' = sessions
               /\ currentChatId' = IF currentChatId = id THEN NoId ELSE currentChatId
               /\ storage' = Stringify(sessions')

C23_DeleteRemovesExactlyOne == [][C23_DeleteStep]_vars

\* The second of three sessions, the current one, has been deleted: the first
\* and the third are left, in that order, with the message one of them holds.
C23_Witness ==
    /\ last.op = "delete" /\ last.arg = 2
    /\ Len(sessions) = 2
    /\ sessions[1].id = 1 /\ sessions[2].id = 3
    /\ currentChatId = NoId
    /\ \E i \in 1..2 : sessions[i].messages # <<>>

\* C24: in every state the current id is null or the id of a listed session,
\* and no two sessions of the list have the same id.
C24_CurrentIsListedAndIdsDistinct ==
    /\ currentChatId = NoId \/ HasSession(sessions, currentChatId)
    /\ \A i, j \in 1..Len(sessions) : i # j => sessions[i].id # sessions[j].id

\* Three sessions were created and two of them deleted, the last one a session
\* other than the current one: the current id is that of the session left.
C24_Witness ==
    /\ last.op = "delete"
    /\ nextSession = MaxStoreSessions
    /\ Len(sessions) = 1
    /\ currentChatId = sessions[1].id
    /\ last.arg # currentChatId

\* C25: addMessage(sessionId, message) appends one message, with the role and
\* content given and an id no message has, to the end of the session with that
\* id, and changes nothing else of that session and no other session; when no
\* session has the id, the list is unchanged.
C25_AllMessageIds(ss) ==
    UNION {Ids(ss[i].messages) : i \in 1..Len(ss)}

C25_AddStep ==
    \A id \in 1..MaxStoreSessions, r \in Roles, c \in Contents :
        AddMessageCall(id, r, c)
        => /\ Len(sessions') = Len(sessions)
           /\ \A i \in 1..Len(sessions) :
                 IF sessions[i].id = id
                 THEN LET old == sessions[i].messages
                          new == sessions'[i].messages
                      IN  /\ sessions'[i] = [sessions[i] EXCEPT !.messages = new]
                          /\ Len(new) = Len(old) + 1
                          /\ SubSeq(new, 1, Len(old)) = old
                          /\ new[Len(new)].role = r
                          /\ new[Len(new)].text = c
                          /\ new[Len(new)].id \notin C25_AllMessageIds(sessions)
                 ELSE sessions'[i] = sessions[i]
           /\ id \notin SessionIds(sessions) => sessions' = sessions
           /\ currentChatId' = currentChatId

C25_AddMessageAppendsToOneSession == [][C25_AddStep]_vars

\* A message has been added with the id of a session that was deleted, while
\* another session holds messages: the list has the one session it had.
C25_Witness ==
    /\ last.op = "add"
    /\ last.arg \notin SessionIds(sessions)
    /\ last.arg <= nextSession
    /\ Len(sessions) = 1
    /\ sessions[1].messages # <<>>

====
